---- MODULE Spec2Model ----
(***************************************************************************)
(* A model of the Serato tag codecs of serato-tags-rs: the Markers2 codec  *)
(* (src/src/tag/markers2.rs), RelVolAd (src/src/tag/relvolad.rs) and       *)
(* Analysis (src/src/tag/analysis.rs).                                     *)
(*                                                                         *)
(* The codecs are pure functions over byte slices.  A byte is a number in  *)
(* 0..255, a slice a sequence of bytes, a String the sequence of its UTF-8 *)
(* bytes.  A nom IResult is a record: [ok |-> TRUE, rest, val] for         *)
(* Ok((rest, val)) and [ok |-> FALSE, kind] for Err(nom::Err::<kind>).     *)
(* The state machine is the caller: it holds an input slice, the value it  *)
(* last obtained, and the bytes and count of the last write.               *)
(***************************************************************************)
EXTENDS Integers, Sequences, FiniteSets, TLC

VARIABLES
    input,    \* the byte slice the caller hands to a parser
    value,    \* the value the caller holds (NoValue when it holds none)
    status,   \* outcome of the last operation: "init", "ok", "err", "panic"
    output,   \* the bytes the last writer emitted into its io::Write
    count,    \* the usize the last writer returned
    remainder, \* the unconsumed remainder the last take_* parser returned
    op,       \* the last operation the caller invoked
    origin,   \* how the caller came by `value`: "none", "id3", "ogg", "edited"
    result    \* what the last operation returned when it was an accessor

vars == <<input, value, status, output, count, remainder, op, origin, result>>

(***************************************************************************)
(* Bounds of the model.                                                    *)
(***************************************************************************)
MaxLabelLen == 1     \* longest generated label, in bytes
MaxDataLen == 1      \* longest generated Unknown marker / action data
MaxPrefix == 1       \* markers generated in front of the marker under test
MaxPad == 2          \* \x00 padding bytes generated after the terminator
MaxShortLen == 4     \* longest exhaustively generated short slice
MaxBreaks == 2       \* line breaks put into a short base64 text
LongDataLen == 52    \* data bytes of the marker that fills more than one line
MaxRelVolLen == 6    \* longest slice handed to RelVolAd::parse
SmallSize == 7       \* a size a caller assigns that is below most payloads
MaxTail == 1         \* bytes generated after a marker entry
MaxAnalysisLen == 4  \* longest exhaustively generated Analysis payload
MaxMarkers == 2      \* most markers a caller keeps in a value it edits
MaxChunkLen == 5     \* longest exhaustively generated base64 chunk

(***************************************************************************)
(* Slices.                                                                 *)
(***************************************************************************)
Drop(s, n) == SubSeq(s, n + 1, Len(s))

Take(s, n) == SubSeq(s, 1, n)

RECURSIVE Flatten(_)
Flatten(ss) == IF ss = <<>> THEN <<>> ELSE Head(ss) \o Flatten(Tail(ss))

Zeros(n) == [k \in 1..n |-> 0]

Min(S) == CHOOSE x \in S : \A y \in S : x <= y

Max(S) == CHOOSE x \in S : \A y \in S : y <= x

RECURSIVE SeqsUpTo(_, _)
SeqsUpTo(S, n) ==
    IF n = 0 THEN {<<>>}
    ELSE LET shorter == SeqsUpTo(S, n - 1)
         IN  shorter \cup {Append(s, x) : s \in {t \in shorter : Len(t) = n - 1}, x \in S}

\* The position of the first b in s, or 0.
IndexOf(s, b) ==
    LET at == {k \in 1..Len(s) : s[k] = b} IN IF at = {} THEN 0 ELSE Min(at)

(***************************************************************************)
(* nom results and the nom combinators the codecs use.                     *)
(***************************************************************************)
Ok(rest, val) == [ok |-> TRUE, rest |-> rest, val |-> val]

Fail(kind) == [ok |-> FALSE, kind |-> kind]

\* The ? operator: an error is returned as it is, a success is handed on.
AndThen(r, next(_)) == IF r.ok THEN next(r) ELSE r

\* let r = <expression>;
Bind(r, next(_)) == next(r)

\* nom::bytes::complete::tag
tag(t, i) ==
    IF Len(i) >= Len(t) /\ Take(i, Len(t)) = t THEN Ok(Drop(i, Len(t)), t) ELSE Fail("Error")

\* nom::combinator::all_consuming applied to the result r of the inner parser
all_consuming(r) ==
    IF r.ok /\ r.rest # <<>> THEN Fail("Error") ELSE r

\* nom::number::complete::u8
u8(i) == IF i = <<>> THEN Fail("Error") ELSE Ok(Tail(i), Head(i))

\* nom::number::complete::be_u32
be_u32(i) ==
    IF Len(i) < 4 THEN Fail("Error")
    ELSE Ok(Drop(i, 4), ((i[1] * 256 + i[2]) * 256 + i[3]) * 256 + i[4])

\* nom::multi::length_data(be_u32): too little data is Err::Incomplete
length_data(i) ==
    AndThen(be_u32(i), LAMBDA n :
        IF Len(n.rest) < n.val THEN Fail("Incomplete")
        ELSE Ok(Drop(n.rest, n.val), Take(n.rest, n.val)))

\* u32::to_be_bytes
to_be_bytes(n) ==
    <<(n \div 16777216) % 256, (n \div 65536) % 256, (n \div 256) % 256, n % 256>>

(***************************************************************************)
(* The primitive codec (crate::util, super::util, super::color): not in    *)
(* src/, modelled after spec.md section 4.1.                               *)
(***************************************************************************)
Version(major, minor) == [major |-> major, minor |-> minor]

take_version(i) ==
    IF Len(i) < 2 THEN Fail("Error") ELSE Ok(Drop(i, 2), Version(i[1], i[2]))

write_version(v) == <<v.major, v.minor>>

IsCont(b) == b \in 128..191

RECURSIVE IsUtf8(_)
IsUtf8(s) ==
    IF s = <<>> THEN TRUE
    ELSE LET b == s[1]
         IN  IF b < 128 THEN IsUtf8(Tail(s))
             ELSE IF b \in 194..223
                  THEN Len(s) >= 2 /\ IsCont(s[2]) /\ IsUtf8(Drop(s, 2))
             ELSE IF b \in 224..239
                  THEN /\ Len(s) >= 3
                       /\ s[2] \in (IF b = 224 THEN 160..191 ELSE IF b = 237 THEN 128..159 ELSE 128..191)
                       /\ IsCont(s[3])
                       /\ IsUtf8(Drop(s, 3))
             ELSE IF b \in 240..244
                  THEN /\ Len(s) >= 4
                       /\ s[2] \in (IF b = 240 THEN 144..191 ELSE IF b = 244 THEN 128..143 ELSE 128..191)
                       /\ IsCont(s[3])
                       /\ IsCont(s[4])
                       /\ IsUtf8(Drop(s, 4))
             ELSE FALSE

\* Reads up to and consuming the \x00 terminator; the bytes before it must be
\* UTF-8.  A missing terminator is a recoverable Err::Error; spec.md says of
\* bad UTF-8 only that the call fails: it is modelled as Err::Incomplete.
take_utf8(i) ==
    LET z == IndexOf(i, 0)
    IN  IF z = 0 THEN Fail("Error")
        ELSE IF ~IsUtf8(Take(i, z - 1)) THEN Fail("Incomplete")
        ELSE Ok(Drop(i, z), Take(i, z - 1))

\* Stored <-> displayed colour.  spec.md fixes only that the map is a
\* bijection and that write_color inverts take_color; the model uses the
\* byte-wise complement as its representative.
StoredToDisplayed(c) == <<255 - c[1], 255 - c[2], 255 - c[3]>>

DisplayedToStored(c) == <<255 - c[1], 255 - c[2], 255 - c[3]>>

take_color(i) ==
    IF Len(i) < 3 THEN Fail("Error") ELSE Ok(Drop(i, 3), StoredToDisplayed(Take(i, 3)))

write_color(c) == DisplayedToStored(c)

(***************************************************************************)
(* RelVolAd  (src/src/tag/relvolad.rs)                                     *)
(***************************************************************************)
RelVolAdValue(version) == [kind |-> "RelVolAd", version |-> version]

\* take_relvolad with the literal one byte short.
take_relvolad_asShortLiteral(i) ==
    AndThen(take_version(i), LAMBDA version :
    AndThen(tag(<<1, 0>>, version.rest), LAMBDA unknown :
        Ok(unknown.rest, RelVolAdValue(version.val))))

take_relvolad(i) ==
    AndThen(take_version(i), LAMBDA version :
    AndThen(tag(<<1, 0, 0>>, version.rest), LAMBDA unknown :
        Ok(unknown.rest, RelVolAdValue(version.val))))

\* RelVolAd::parse: Result<Self, Error>
RelVolAd_parse(i) == all_consuming(take_relvolad(i))

(***************************************************************************)
(* Analysis  (src/src/tag/analysis.rs)                                     *)
(***************************************************************************)
AnalysisValue(version) == [kind |-> "Analysis", version |-> version]

take_analysis(i) ==
    AndThen(take_version(i), LAMBDA version :
        Ok(version.rest, AnalysisValue(version.val)))

\* <Analysis as Tag>::parse
Analysis_parse(i) == all_consuming(take_analysis(i))

is_ascii_digit(b) == b \in 48..57

\* str::parse::<u8> of a run of ASCII digits: Err for the empty run and for
\* a value above 255 (the arithmetic is checked at every digit).
RECURSIVE parse_u8(_, _)
parse_u8(digits, acc) ==
    IF digits = <<>> THEN [ok |-> TRUE, val |-> acc]
    ELSE IF acc * 10 + (Head(digits) - 48) > 255 THEN Fail("Error")
    ELSE parse_u8(Tail(digits), acc * 10 + (Head(digits) - 48))

\* str::parse::<u8> with the arithmetic wrapping at 256.
RECURSIVE parse_u8_asWrapping(_, _)
parse_u8_asWrapping(digits, acc) ==
    IF digits = <<>> THEN [ok |-> TRUE, val |-> acc]
    ELSE parse_u8_asWrapping(Tail(digits), (acc * 10 + (Head(digits) - 48)) % 256)

\* The digits take_while(is_ascii_digit) takes from the front of i.
DigitRun(i) ==
    LET stop == {k \in 1..Len(i) : ~is_ascii_digit(i[k])}
    IN  IF stop = {} THEN i ELSE Take(i, Min(stop) - 1)

\* The match of take_ascii_u8 on the result of parse::<u8>.
AsciiNumber(i, ascii_number, number) ==
    IF ascii_number = <<>> \/ ~number.ok THEN Fail("Error")
    ELSE Ok(Drop(i, Len(ascii_number)), number.val)

\* take_ascii_u8 with a number parser that wraps around at 256.
take_ascii_u8_asWrapping(i) ==
    AsciiNumber(i, DigitRun(i), parse_u8_asWrapping(DigitRun(i), 0))

take_ascii_u8(i) == AsciiNumber(i, DigitRun(i), parse_u8(DigitRun(i), 0))

take_analysis_ogg(i) ==
    AndThen(take_ascii_u8(i), LAMBDA major :
    AndThen(tag(<<46>>, major.rest), LAMBDA separator :
    AndThen(take_ascii_u8(separator.rest), LAMBDA minor :
        Ok(minor.rest, AnalysisValue(Version(major.val, minor.val))))))

\* <Analysis as OggTag>::parse_ogg
Analysis_parse_ogg(i) == all_consuming(take_analysis_ogg(i))

(***************************************************************************)
(* base64 (the base64 crate, STANDARD configuration, as markers2.rs calls  *)
(* it).  Decoding is per slice: a length of 1 mod 4 is InvalidLength; a    *)
(* final group of 2 or 3 characters decodes without '=' padding, and is    *)
(* InvalidLastSymbol when the bits it leaves over are not zero.            *)
(***************************************************************************)
IsUpper(c) == c \in 65..90

IsLower(c) == c \in 97..122

IsDigit(c) == c \in 48..57

\* is_base64
is_base64(chr) == IsUpper(chr) \/ IsLower(chr) \/ IsDigit(chr) \/ chr = 43 \/ chr = 47

\* The 6-bit value of a character of the standard alphabet.
B64Val(c) ==
    IF IsUpper(c) THEN c - 65
    ELSE IF IsLower(c) THEN c - 97 + 26
    ELSE IF IsDigit(c) THEN c - 48 + 52
    ELSE IF c = 43 THEN 62
    ELSE 63

\* The character of a 6-bit value.
B64Chr(v) ==
    IF v < 26 THEN 65 + v
    ELSE IF v < 52 THEN 97 + v - 26
    ELSE IF v < 62 THEN 48 + v - 52
    ELSE IF v = 62 THEN 43
    ELSE 47

\* The 24 bits of the g-th group of four characters of s (g from 0); a
\* character past the end of s counts as six zero bits.
B64Group(s, g) ==
    LET c(j) == IF 4 * g + j <= Len(s) THEN B64Val(s[4 * g + j]) ELSE 0
    IN  ((c(1) * 64 + c(2)) * 64 + c(3)) * 64 + c(4)

\* The k-th of the three bytes of 24 bits (k from 0).
GroupByte(v, k) == IF k = 0 THEN v \div 65536 ELSE IF k = 1 THEN (v \div 256) % 256 ELSE v % 256

\* Decoding of a slice of alphabet characters whose length is not 1 mod 4:
\* 3 bytes a full group, 1 or 2 bytes a final group of 2 or 3 characters.
B64DecodeGroups(s) ==
    LET tail == Len(s) % 4
        nbytes == (Len(s) \div 4) * 3 + (IF tail = 0 THEN 0 ELSE tail - 1)
        last == B64Group(s, Len(s) \div 4)
    IN  IF tail = 2 /\ last % 65536 # 0 THEN Fail("InvalidLastSymbol")
        ELSE IF tail = 3 /\ last % 256 # 0 THEN Fail("InvalidLastSymbol")
        ELSE [ok |-> TRUE,
              val |-> [k \in 1..nbytes |->
                          GroupByte(B64Group(s, (k - 1) \div 3), (k - 1) % 3)]]

\* base64::decode_config_slice(s, base64::STANDARD, &mut buf): Ok(bytes) or a DecodeError
decode_config_slice(s) ==
    IF \E k \in 1..Len(s) : ~is_base64(s[k]) THEN Fail("InvalidByte")
    ELSE IF Len(s) % 4 = 1 THEN Fail("InvalidLength")
    ELSE B64DecodeGroups(s)

\* The 24 bits of the g-th group of three bytes of b (g from 0); a byte
\* past the end of b counts as zero.
ByteGroup(b, g) ==
    LET c(j) == IF 3 * g + j <= Len(b) THEN b[3 * g + j] ELSE 0
    IN  (c(1) * 256 + c(2)) * 256 + c(3)

\* The k-th of the four 6-bit values of 24 bits (k from 0).
GroupSextet(v, k) ==
    IF k = 0 THEN v \div 262144
    ELSE IF k = 1 THEN (v \div 4096) % 64
    ELSE IF k = 2 THEN (v \div 64) % 64
    ELSE v % 64

\* Standard base64 of a byte slice, without '=' padding.
B64EncodeNoPad(b) ==
    LET tail == Len(b) % 3
        nchars == (Len(b) \div 3) * 4 + (IF tail = 0 THEN 0 ELSE tail + 1)
    IN  [k \in 1..nchars |-> B64Chr(GroupSextet(ByteGroup(b, (k - 1) \div 4), (k - 1) % 4))]

(***************************************************************************)
(* Markers2: the outer grammar  (src/src/tag/markers2.rs)                  *)
(***************************************************************************)
\* The length of the longest prefix of i whose bytes satisfy P.
PrefixLen(i, P(_)) ==
    LET stop == {k \in 1..Len(i) : ~P(i[k])} IN IF stop = {} THEN Len(i) ELSE Min(stop) - 1

\* peek_nullbyte
peek_nullbyte(i) == IF tag(<<0>>, i).ok THEN Ok(i, <<0>>) ELSE Fail("Error")

\* peek_newline_or_nullbyte
peek_newline_or_nullbyte(i) ==
    IF tag(<<10>>, i).ok THEN Ok(i, <<10>>)
    ELSE IF tag(<<0>>, i).ok THEN Ok(i, <<0>>)
    ELSE Fail("Error")

take_base64_chunk(i) ==
    Bind(PrefixLen(i, is_base64), LAMBDA n :
        IF n = 0 THEN Fail("Error")
        ELSE AndThen(peek_newline_or_nullbyte(Drop(i, n)), LAMBDA byte :
                 IF byte.val = <<0>> THEN Ok(byte.rest, Take(i, n))
                 ELSE Ok(Tail(byte.rest), Take(i, n))))

\* nom::multi::many_till(take_base64_chunk, peek_nullbyte)
RECURSIVE many_till_chunks(_, _)
many_till_chunks(i, res) ==
    IF peek_nullbyte(i).ok THEN Ok(i, res)
    ELSE AndThen(take_base64_chunk(i), LAMBDA c :
             IF c.rest = i THEN Fail("Error")
             ELSE many_till_chunks(c.rest, Append(res, c.val)))

take_base64_chunks(i) == many_till_chunks(i, <<>>)

\* decode_config_slice, tried again with an 'A' appended on InvalidLength.
ChunkRetry(chunk) ==
    Bind(decode_config_slice(chunk), LAMBDA res :
        IF ~res.ok /\ res.kind = "InvalidLength"
        THEN decode_config_slice(Append(chunk, 65))
        ELSE res)

\* One iteration of the loop of decode_base64_chunks: the bytes of a chunk,
\* Err::Error for a chunk above 72 characters, or the panic of res.unwrap().
DecodeChunk(chunk) ==
    IF Len(chunk) > 72 THEN Fail("Error")
    ELSE Bind(ChunkRetry(chunk), LAMBDA res :
             IF ~res.ok THEN Fail("Panic")
             ELSE IF Len(res.val) > 54 THEN Fail("Panic")
             ELSE res)

\* decode_base64_chunks keeping the bytes of the last chunk only
\* (decoded_data assigned where it is extended).
RECURSIVE decode_base64_chunks_asLastOnly(_)
decode_base64_chunks_asLastOnly(encoded_chunks) ==
    IF encoded_chunks = <<>> THEN [ok |-> TRUE, val |-> <<>>]
    ELSE AndThen(DecodeChunk(Head(encoded_chunks)), LAMBDA d :
         AndThen(decode_base64_chunks_asLastOnly(Tail(encoded_chunks)), LAMBDA r :
             [ok |-> TRUE, val |-> IF Tail(encoded_chunks) = <<>> THEN d.val ELSE r.val]))

RECURSIVE decode_base64_chunks(_)
decode_base64_chunks(encoded_chunks) ==
    IF encoded_chunks = <<>> THEN [ok |-> TRUE, val |-> <<>>]
    ELSE AndThen(DecodeChunk(Head(encoded_chunks)), LAMBDA d :
         AndThen(decode_base64_chunks(Tail(encoded_chunks)), LAMBDA r :
             [ok |-> TRUE, val |-> d.val \o r.val]))

\* take_nullbytes
take_nullbytes(i) ==
    Bind(PrefixLen(i, LAMBDA x : x = 0), LAMBDA n : Ok(Drop(i, n), Take(i, n)))

(***************************************************************************)
(* Markers2: the markers of the decoded content, parsing                   *)
(***************************************************************************)
NameBPMLOCK == <<66, 80, 77, 76, 79, 67, 75>>

NameCOLOR == <<67, 79, 76, 79, 82>>

NameCUE == <<67, 85, 69>>

NameLOOP == <<76, 79, 79, 80>>

NameFLIP == <<70, 76, 73, 80>>

KnownNames == {NameBPMLOCK, NameCOLOR, NameCUE, NameLOOP, NameFLIP}

UnknownMarker(name, data) == [kind |-> "Unknown", name |-> name, data |-> data]

TrackColorMarker(color) == [kind |-> "Color", color |-> color]

BPMLockMarker(is_locked) == [kind |-> "BPMLock", is_locked |-> is_locked]

Cue(index, position_millis, color, label) ==
    [kind |-> "Cue", index |-> index, position_millis |-> position_millis,
     color |-> color, label |-> label]

Loop(index, start_position_millis, end_position_millis, color, is_locked, label) ==
    [kind |-> "Loop", index |-> index, start_position_millis |-> start_position_millis,
     end_position_millis |-> end_position_millis, color |-> color,
     is_locked |-> is_locked, label |-> label]

Flip(index, is_enabled, label, is_loop, actions) ==
    [kind |-> "Flip", index |-> index, is_enabled |-> is_enabled, label |-> label,
     is_loop |-> is_loop, actions |-> actions]

\* An f64 is kept as its 8 big-endian bytes: from_bits/to_be_bytes move bits.
JumpFlipAction(source_position_seconds, target_position_seconds) ==
    [kind |-> "Jump", source_position_seconds |-> source_position_seconds,
     target_position_seconds |-> target_position_seconds]

CensorFlipAction(start_position_seconds, end_position_seconds, speed_factor) ==
    [kind |-> "Censor", start_position_seconds |-> start_position_seconds,
     end_position_seconds |-> end_position_seconds, speed_factor |-> speed_factor]

UnknownFlipAction(id, data) == [kind |-> "UnknownAction", id |-> id, data |-> data]

\* nom::number::complete::be_f64
be_f64(i) == IF Len(i) < 8 THEN Fail("Error") ELSE Ok(Drop(i, 8), Take(i, 8))

take_marker_name(i) ==
    IF tag(<<0>>, i).ok THEN Fail("Error")
    ELSE AndThen(take_utf8(i), LAMBDA name :
             IF name.val = <<>> THEN Fail("Incomplete") ELSE name)

take_bool(i) ==
    AndThen(u8(i), LAMBDA number : Ok(number.rest, number.val # 0))

take_bpmlock_marker(i) ==
    AndThen(take_bool(i), LAMBDA is_locked :
        Ok(is_locked.rest, BPMLockMarker(is_locked.val)))

take_color_marker(i) ==
    AndThen(tag(<<0>>, i), LAMBDA z :
    AndThen(take_color(z.rest), LAMBDA color :
        Ok(color.rest, TrackColorMarker(color.val))))

take_cue_marker(i) ==
    AndThen(tag(<<0>>, i), LAMBDA z1 :
    AndThen(u8(z1.rest), LAMBDA index :
    AndThen(be_u32(index.rest), LAMBDA position_millis :
    AndThen(tag(<<0>>, position_millis.rest), LAMBDA z2 :
    AndThen(take_color(z2.rest), LAMBDA color :
    AndThen(tag(<<0, 0>>, color.rest), LAMBDA z3 :
    AndThen(take_utf8(z3.rest), LAMBDA label :
        Ok(label.rest, Cue(index.val, position_millis.val, color.val, label.val)))))))))

take_loop_marker(i) ==
    AndThen(tag(<<0>>, i), LAMBDA z1 :
    AndThen(u8(z1.rest), LAMBDA index :
    AndThen(be_u32(index.rest), LAMBDA start_position_millis :
    AndThen(be_u32(start_position_millis.rest), LAMBDA end_position_millis :
    AndThen(tag(<<255, 255, 255, 255>>, end_position_millis.rest), LAMBDA f :
    AndThen(tag(<<0>>, f.rest), LAMBDA z2 :
    AndThen(take_color(z2.rest), LAMBDA color :
    AndThen(tag(<<0>>, color.rest), LAMBDA z3 :
    AndThen(take_bool(z3.rest), LAMBDA is_locked :
    AndThen(take_utf8(is_locked.rest), LAMBDA label :
        Ok(label.rest, Loop(index.val, start_position_millis.val,
                            end_position_millis.val, color.val, is_locked.val,
                            label.val))))))))))))

take_flip_marker_action_jump(i) ==
    AndThen(be_f64(i), LAMBDA source_position_seconds :
    AndThen(be_f64(source_position_seconds.rest), LAMBDA target_position_seconds :
        Ok(target_position_seconds.rest,
           JumpFlipAction(source_position_seconds.val, target_position_seconds.val))))

take_flip_marker_action_censor(i) ==
    AndThen(be_f64(i), LAMBDA start_position_seconds :
    AndThen(be_f64(start_position_seconds.rest), LAMBDA end_position_seconds :
    AndThen(be_f64(end_position_seconds.rest), LAMBDA speed_factor :
        Ok(speed_factor.rest,
           CensorFlipAction(start_position_seconds.val, end_position_seconds.val,
                            speed_factor.val)))))

\* The action parser take_flip_marker_action selects by id.
ActionBody(id, data) ==
    IF id = 0 THEN all_consuming(take_flip_marker_action_jump(data))
    ELSE IF id = 1 THEN all_consuming(take_flip_marker_action_censor(data))
    ELSE Ok(<<>>, UnknownFlipAction(id, data))

take_flip_marker_action(i) ==
    AndThen(u8(i), LAMBDA id :
    AndThen(length_data(id.rest), LAMBDA data :
    AndThen(ActionBody(id.val, data.val), LAMBDA action :
        Ok(data.rest, action.val))))

\* The loop of nom::multi::length_count(be_u32, take_flip_marker_action)
RECURSIVE CountActions(_, _, _)
CountActions(i, n, res) ==
    IF n = 0 THEN Ok(i, res)
    ELSE AndThen(take_flip_marker_action(i), LAMBDA a :
             CountActions(a.rest, n - 1, Append(res, a.val)))

length_count_actions(i) ==
    AndThen(be_u32(i), LAMBDA n : CountActions(n.rest, n.val, <<>>))

take_flip_marker(i) ==
    AndThen(tag(<<0>>, i), LAMBDA z :
    AndThen(u8(z.rest), LAMBDA index :
    AndThen(take_bool(index.rest), LAMBDA is_enabled :
    AndThen(take_utf8(is_enabled.rest), LAMBDA label :
    AndThen(take_bool(label.rest), LAMBDA is_loop :
    AndThen(length_count_actions(is_loop.rest), LAMBDA actions :
        Ok(actions.rest, Flip(index.val, is_enabled.val, label.val, is_loop.val,
                              actions.val))))))))

\* The body parser take_marker selects by name, under all_consuming.
MarkerBody(name, data) ==
    IF name = NameBPMLOCK THEN all_consuming(take_bpmlock_marker(data))
    ELSE IF name = NameCOLOR THEN all_consuming(take_color_marker(data))
    ELSE IF name = NameCUE THEN all_consuming(take_cue_marker(data))
    ELSE IF name = NameLOOP THEN all_consuming(take_loop_marker(data))
    ELSE IF name = NameFLIP THEN all_consuming(take_flip_marker(data))
    ELSE Ok(<<>>, UnknownMarker(name, data))

take_marker(i) ==
    AndThen(take_marker_name(i), LAMBDA name :
    AndThen(length_data(name.rest), LAMBDA data :
    AndThen(MarkerBody(name.val, data.val), LAMBDA marker :
        Ok(data.rest, marker.val))))

\* nom::multi::many0(take_marker): an Err::Error ends the list, any other
\* error is the result.
RECURSIVE many0_markers(_, _)
many0_markers(i, acc) ==
    Bind(take_marker(i), LAMBDA m :
        IF ~m.ok THEN (IF m.kind = "Error" THEN Ok(i, acc) ELSE m)
        ELSE IF m.rest = i THEN Fail("Error")
        ELSE many0_markers(m.rest, Append(acc, m.val)))

Markers2Content(version, markers) == [version |-> version, markers |-> markers]

parse_markers2_content(i) ==
    AndThen(take_version(i), LAMBDA version :
    AndThen(many0_markers(version.rest, <<>>), LAMBDA markers :
        Ok(markers.rest, Markers2Content(version.val, markers.val))))

Markers2(version, size, content) ==
    [kind |-> "Markers2", version |-> version, size |-> size, content |-> content]

\* Option<Version>
Some(v) == <<v>>

None == <<>>

\* The positions in content.markers of the markers of a kind.
MarkersOfKind(self, kind) ==
    {k \in 1..Len(self.content.markers) : self.content.markers[k].kind = kind}

\* bpm_locked with the loop running to its end: the last BPMLock marker.
bpm_locked_asLast(self) ==
    IF MarkersOfKind(self, "BPMLock") = {} THEN None
    ELSE Some(self.content.markers[Max(MarkersOfKind(self, "BPMLock"))].is_locked)

\* Markers2::bpm_locked: the loop returns at the first BPMLock marker.
bpm_locked(self) ==
    IF MarkersOfKind(self, "BPMLock") = {} THEN None
    ELSE Some(self.content.markers[Min(MarkersOfKind(self, "BPMLock"))].is_locked)

\* Markers2::track_color: the loop returns at the first Color marker.
track_color(self) ==
    IF MarkersOfKind(self, "Color") = {} THEN None
    ELSE Some(self.content.markers[Min(MarkersOfKind(self, "Color"))].color)

\* The loop of cues, loops and flips: a clone of each marker of the kind is
\* pushed in the order of content.markers.
RECURSIVE PushClones(_, _, _)
PushClones(vec, markers, kind) ==
    IF markers = <<>> THEN vec
    ELSE PushClones(IF Head(markers).kind = kind THEN Append(vec, Head(markers)) ELSE vec,
                    Tail(markers), kind)

\* cues that keeps one cue per index.
cues_asOnePerIndex(self) ==
    SelectSeq(PushClones(<<>>, self.content.markers, "Cue"),
              LAMBDA m : m = self.content.markers[
                  Min({k \in MarkersOfKind(self, "Cue") :
                          self.content.markers[k].index = m.index})])

\* Markers2::cues
cues(self) == PushClones(<<>>, self.content.markers, "Cue")

\* Markers2::loops
loops(self) == PushClones(<<>>, self.content.markers, "Loop")

\* Markers2::flips
flips(self) == PushClones(<<>>, self.content.markers, "Flip")

take_markers2(i) ==
    AndThen(take_version(i), LAMBDA version :
    AndThen(take_base64_chunks(version.rest), LAMBDA base64_chunks :
    AndThen(take_nullbytes(base64_chunks.rest), LAMBDA nullbytes :
    AndThen(decode_base64_chunks(base64_chunks.val), LAMBDA base64_decoded :
    Bind(parse_markers2_content(base64_decoded.val), LAMBDA markers2_result :
        IF ~markers2_result.ok THEN Fail("Incomplete")
        ELSE Ok(nullbytes.rest,
                Markers2(Some(version.val), Len(i), markers2_result.val)))))))

\* The outcome of a call as the caller sees it: a Result, or a panic.
Returned(v) == [status |-> "ok", value |-> v]

NoValue == [kind |-> "None"]

Errored == [status |-> "err", value |-> NoValue]

Panicked == [status |-> "panic", value |-> NoValue]

Outcome(r) ==
    IF r.ok THEN Returned(r.val)
    ELSE IF r.kind = "Panic" THEN Panicked
    ELSE Errored

\* <Markers2 as Tag>::parse
Markers2_parse(i) == Outcome(all_consuming(take_markers2(i)))

(***************************************************************************)
(* Markers2: writing.  A writer call yields the bytes it put into the      *)
(* io::Write and the usize it returned; the io::Write is a Vec, whose      *)
(* write() takes the whole buffer and cannot fail.                         *)
(***************************************************************************)
\* writer.write(buf)
Wr(buf) == [bytes |-> buf, n |-> Len(buf)]

\* bytes_written += <a further write>
PlusEq(w, more) == [bytes |-> w.bytes \o more.bytes, n |-> w.n + more.n]

\* bytes_written = <a further write>
Assigned(w, more) == [bytes |-> w.bytes \o more.bytes, n |-> more.n]

RECURSIVE WrAll(_)
WrAll(ws) ==
    IF Len(ws) = 1 THEN Head(ws) ELSE PlusEq(Head(ws), WrAll(Tail(ws)))

write_bool(b) == Wr(IF b THEN <<1>> ELSE <<0>>)

write_bpmlock_marker(marker) ==
    WrAll(<<Wr(NameBPMLOCK \o <<0>>), Wr(to_be_bytes(1)), write_bool(marker.is_locked)>>)

write_color_marker(marker) ==
    WrAll(<<Wr(NameCOLOR \o <<0>>), Wr(to_be_bytes(4)), Wr(<<0>>),
            Wr(write_color(marker.color))>>)

write_cue_marker(marker) ==
    LET size == 13 + Len(marker.label)
    IN  WrAll(<<Wr(NameCUE \o <<0>>), Wr(to_be_bytes(size)), Wr(<<0>>),
                Wr(<<marker.index>>), Wr(to_be_bytes(marker.position_millis)),
                Wr(<<0>>), Wr(write_color(marker.color)), Wr(<<0, 0>>),
                Wr(marker.label), Wr(<<0>>)>>)

write_loop_marker(marker) ==
    LET size == 21 + Len(marker.label)
    IN  WrAll(<<Wr(NameLOOP \o <<0>>), Wr(to_be_bytes(size)), Wr(<<0>>),
                Wr(<<marker.index>>), Wr(to_be_bytes(marker.start_position_millis)),
                Wr(to_be_bytes(marker.end_position_millis)),
                Wr(<<255, 255, 255, 255, 0>>), Wr(write_color(marker.color)),
                Wr(<<0>>), write_bool(marker.is_locked), Wr(marker.label),
                Wr(<<0>>)>>)

write_flip_marker_action_jump(action) ==
    PlusEq(Wr(action.source_position_seconds), Wr(action.target_position_seconds))

write_flip_marker_action_censor(action) ==
    WrAll(<<Wr(action.start_position_seconds), Wr(action.end_position_seconds),
            Wr(action.speed_factor)>>)

write_flip_marker_action(action) ==
    IF action.kind = "Jump"
    THEN WrAll(<<Wr(<<0>>), Wr(to_be_bytes(16)), write_flip_marker_action_jump(action)>>)
    ELSE IF action.kind = "Censor"
    THEN WrAll(<<Wr(<<1>>), Wr(to_be_bytes(24)), write_flip_marker_action_censor(action)>>)
    ELSE WrAll(<<Wr(<<action.id>>), Wr(to_be_bytes(Len(action.data))), Wr(action.data)>>)

\* The size write_flip_marker adds for one action.
FlipActionSize(action) ==
    IF action.kind = "Jump" THEN 21
    ELSE IF action.kind = "Censor" THEN 29
    ELSE Len(action.data) + 1

RECURSIVE FlipSize(_, _)
FlipSize(size, actions) ==
    IF actions = <<>> THEN size
    ELSE FlipSize(size + FlipActionSize(Head(actions)), Tail(actions))

\* The second loop of write_flip_marker: each action's count is assigned.
RECURSIVE WriteActions(_, _)
WriteActions(w, actions) ==
    IF actions = <<>> THEN w
    ELSE WriteActions(Assigned(w, write_flip_marker_action(Head(actions))), Tail(actions))

write_flip_marker(marker) ==
    LET size == FlipSize(9 + Len(marker.label), marker.actions)
        num_actions == Len(marker.actions)
        head == WrAll(<<Wr(NameFLIP \o <<0>>), Wr(to_be_bytes(size)), Wr(<<0>>),
                        Wr(<<marker.index>>), write_bool(marker.is_enabled),
                        Wr(marker.label), Wr(<<0>>), write_bool(marker.is_loop),
                        Wr(to_be_bytes(num_actions))>>)
    IN  WriteActions(head, marker.actions)

\* write_marker without the \x00 that ends the name of an Unknown marker.
write_marker_asUnterminated(marker) ==
    IF marker.kind = "Unknown"
    THEN WrAll(<<Wr(marker.name), Wr(to_be_bytes(Len(marker.data))), Wr(marker.data)>>)
    ELSE IF marker.kind = "BPMLock" THEN write_bpmlock_marker(marker)
    ELSE IF marker.kind = "Color" THEN write_color_marker(marker)
    ELSE IF marker.kind = "Cue" THEN write_cue_marker(marker)
    ELSE IF marker.kind = "Loop" THEN write_loop_marker(marker)
    ELSE write_flip_marker(marker)

write_marker(marker) ==
    IF marker.kind = "Unknown"
    THEN WrAll(<<Wr(marker.name), Wr(<<0>>), Wr(to_be_bytes(Len(marker.data))),
                 Wr(marker.data)>>)
    ELSE IF marker.kind = "BPMLock" THEN write_bpmlock_marker(marker)
    ELSE IF marker.kind = "Color" THEN write_color_marker(marker)
    ELSE IF marker.kind = "Cue" THEN write_cue_marker(marker)
    ELSE IF marker.kind = "Loop" THEN write_loop_marker(marker)
    ELSE write_flip_marker(marker)

RECURSIVE WriteMarkers(_, _)
WriteMarkers(w, markers) ==
    IF markers = <<>> THEN w
    ELSE WriteMarkers(PlusEq(w, write_marker(Head(markers))), Tail(markers))

write_markers2_content(content) ==
    WriteMarkers(Wr(write_version(content.version)), content.markers)

\* enveloped::base64_encode (not in src/; spec.md 4.3, write side): the
\* base64 of 54-byte pieces, 72 characters a line, no '=' padding, lines
\* separated by \n, a final \x00; returns the bytes written.
RECURSIVE B64Lines(_)
B64Lines(plain_data) ==
    IF Len(plain_data) <= 54 THEN B64EncodeNoPad(plain_data)
    ELSE B64EncodeNoPad(Take(plain_data, 54)) \o <<10>> \o B64Lines(Drop(plain_data, 54))

base64_encode(plain_data) == Wr(B64Lines(plain_data) \o <<0>>)

\* The padding loop left out.
PadTo_asNoPadding(size, w) == w

\* The padding loop shared by write_markers2 and write_ogg.
PadTo(size, w) ==
    IF size > w.n THEN PlusEq(w, Wr(Zeros(size - w.n))) ELSE w

write_markers2(markers2) ==
    IF markers2.version = None THEN Fail("Error")
    ELSE Bind(write_markers2_content(markers2.content), LAMBDA buffer :
             [ok |-> TRUE,
              val |-> PadTo(markers2.size,
                            PlusEq(Wr(write_version(markers2.version[1])),
                                   base64_encode(buffer.bytes)))])

\* <Markers2 as OggTag>::write_ogg
write_ogg(markers2) ==
    Bind(write_markers2_content(markers2.content), LAMBDA buffer :
        [ok |-> TRUE, val |-> PadTo(markers2.size, base64_encode(buffer.bytes))])

\* enveloped::base64_decode (not in src/; spec.md 4.2): the text up to the
\* \x00 padding, line breaks and '=' padding removed, one 'A' appended to a
\* length of 1 mod 4, decoded as a whole; a failure is a Base64Error.
StripTrailing(s, P(_)) ==
    LET keep == {k \in 1..Len(s) : ~P(s[k])} IN IF keep = {} THEN <<>> ELSE Take(s, Max(keep))

base64_decode(i) ==
    LET text == StripTrailing(StripTrailing(i, LAMBDA x : x = 0), LAMBDA x : x = 61)
        chars == SelectSeq(text, LAMBDA x : x # 10)
    IN  ChunkRetry(chars)

\* <Markers2 as OggTag>::parse_ogg
parse_ogg(i) ==
    Bind(base64_decode(i), LAMBDA base64_decoded :
        IF ~base64_decoded.ok THEN Errored
        ELSE Bind(parse_markers2_content(base64_decoded.val), LAMBDA content :
                 IF content.ok THEN Returned(Markers2(None, Len(i), content.val))
                 ELSE Errored))

(***************************************************************************)
(* The inputs of the model: payloads as Serato DJ emits them (spec.md      *)
(* section 4.3), and damaged variants of them.                             *)
(***************************************************************************)
\* A marker entry: name, \x00, u32 big-endian length, body.
SeratoEntry(name, body) == name \o <<0>> \o to_be_bytes(Len(body)) \o body

BodyColor(c) == <<0>> \o c

BodyCue(index, position, c, label) ==
    <<0, index>> \o to_be_bytes(position) \o <<0>> \o c \o <<0, 0>> \o label \o <<0>>

BodyLoop(index, start, end, c, locked, label) ==
    <<0, index>> \o to_be_bytes(start) \o to_be_bytes(end) \o <<255, 255, 255, 255, 0>>
        \o c \o <<0, locked>> \o label \o <<0>>

\* A flip action: id, u32 big-endian length, data.
SeratoAction(id, data) == <<id>> \o to_be_bytes(Len(data)) \o data

BodyFlip(index, enabled, label, loop, actions) ==
    <<0, index, enabled>> \o label \o <<0, loop>> \o to_be_bytes(Len(actions))
        \o Flatten(actions)

FxColor == <<204, 0, 0>>

FxF64a == <<64, 9, 33, 251, 84, 68, 45, 24>>

FxF64b == <<63, 240, 0, 0, 0, 0, 0, 0>>

Labels == SeqsUpTo({72}, MaxLabelLen) \cup {<<195, 169>>}

Datas == SeqsUpTo({0, 7}, MaxDataLen)

UnknownNames == {<<88>>, <<67, 85, 69, 83>>}

FxJump == SeratoAction(0, FxF64a \o FxF64b)

FxCensor == SeratoAction(1, FxF64a \o FxF64b \o FxF64b)

FxUnknownActions == {SeratoAction(2, d) : d \in Datas}

FxActionLists ==
    {<<>>, <<FxJump>>, <<FxCensor>>, <<FxJump, FxCensor>>}
        \cup {<<a>> : a \in FxUnknownActions}
        \cup {<<FxJump, a>> : a \in FxUnknownActions}
        \cup {<<a, FxCensor>> : a \in FxUnknownActions}

FxFlips ==
    {SeratoEntry(NameFLIP, BodyFlip(0, 1, <<>>, 0, acts)) : acts \in FxActionLists}
        \cup {SeratoEntry(NameFLIP, BodyFlip(3, 0, l, 1, <<FxJump>>)) : l \in Labels}

\* Well-formed marker entries.
GoodEntries ==
    {SeratoEntry(NameBPMLOCK, <<b>>) : b \in {0, 1, 2}}
        \cup {SeratoEntry(NameCOLOR, BodyColor(FxColor))}
        \cup {SeratoEntry(NameCUE, BodyCue(2, 31250, FxColor, l)) : l \in Labels}
        \cup {SeratoEntry(NameLOOP, BodyLoop(1, 10, 20, FxColor, 1, l)) : l \in Labels}
        \cup FxFlips
        \cup {SeratoEntry(n, d) : n \in UnknownNames, d \in Datas}

\* Entries of a known name with a wrong fixed byte.
WrongFixedEntries ==
    { SeratoEntry(NameCOLOR, <<1>> \o FxColor),
      SeratoEntry(NameCUE, <<0, 2, 0, 0, 122, 18, 9>> \o FxColor \o <<0, 0, 0>>),
      SeratoEntry(NameLOOP, <<0, 1, 0, 0, 0, 10, 0, 0, 0, 20, 255, 255, 255, 254, 0>>
                                \o FxColor \o <<0, 1, 0>>),
      SeratoEntry(NameFLIP, <<5, 0, 1, 0, 0, 0, 0, 0, 0>>) }

\* Entries of a known name whose body does not use all of its declared length.
LeftoverEntries ==
    { SeratoEntry(NameBPMLOCK, <<1, 0>>),
      SeratoEntry(NameCOLOR, BodyColor(FxColor) \o <<0>>),
      SeratoEntry(NameCUE, BodyCue(2, 31250, FxColor, <<72>>) \o <<0>>),
      SeratoEntry(NameLOOP, BodyLoop(1, 10, 20, FxColor, 1, <<>>) \o <<7>>),
      SeratoEntry(NameFLIP, BodyFlip(0, 1, <<>>, 0, <<>>) \o <<0>>),
      SeratoEntry(NameFLIP, BodyFlip(0, 1, <<>>, 0, <<SeratoAction(0, FxF64a \o FxF64b \o <<0>>)>>)) }

\* Entries with a label that is not UTF-8, and entries cut short.
OtherBadEntries ==
    { SeratoEntry(NameCUE, BodyCue(2, 31250, FxColor, <<255>>)),
      NameBPMLOCK \o <<0, 0, 0, 0, 5, 1>>,
      SeratoEntry(NameBPMLOCK, <<>>),
      SeratoEntry(NameFLIP, BodyFlip(0, 1, <<>>, 0, <<SeratoAction(0, FxF64a)>>)),
      NameFLIP \o <<0, 0, 0, 0, 9, 0, 0, 1, 0, 0, 0, 0, 0, 1>>,
      <<88>> }

MalformedEntries == WrongFixedEntries \cup LeftoverEntries \cup OtherBadEntries

FxPrefixPool ==
    {SeratoEntry(NameBPMLOCK, <<1>>), SeratoEntry(NameCUE, BodyCue(0, 5, FxColor, <<>>))}

FxPrefixes == {Flatten(p) : p \in SeqsUpTo(FxPrefixPool, MaxPrefix)}

\* Decoded inner payloads: version, markers, then nothing or the \x00 that
\* ends the list.
InnerPayloads ==
    {<<1, 1>> \o p \o e \o t :
        p \in FxPrefixes, e \in GoodEntries \cup MalformedEntries \cup {<<>>},
        t \in {<<>>, <<0>>}}

\* A base64 text with a \n put after each of the positions in `breaks`.
Broken(text, breaks) ==
    LET B == breaks \cap 1..(Len(text) - 1)
        \* the position in text of the j-th byte of the result, 0 for a \n
        src(j) == LET before == {b \in B : b + Cardinality({c \in B : c < b}) < j}
                  IN  IF \E b \in B : b + Cardinality({c \in B : c <= b}) = j THEN 0
                      ELSE j - Cardinality(before)
    IN  [j \in 1..(Len(text) + Cardinality(B)) |-> IF src(j) = 0 THEN 10 ELSE text[src(j)]]

Lines72(text) == Broken(text, {k \in 1..Len(text) : k % 72 = 0})

\* The raw payload of an inner payload: version, base64 lines, \x00, padding.
RawOf(inner, pad) == <<1, 1>> \o Lines72(B64EncodeNoPad(inner)) \o <<0>> \o Zeros(pad)

OggOf(inner, pad) == Lines72(B64EncodeNoPad(inner)) \o <<0>> \o Zeros(pad)

RawPayloads == {RawOf(inner, pad) : inner \in InnerPayloads, pad \in {0, MaxPad}}

OggPayloads ==
    {OggOf(<<1, 1>> \o e \o t, pad) :
        e \in GoodEntries \cup WrongFixedEntries, t \in {<<>>, <<0>>}, pad \in {0, MaxPad}}

RECURSIVE SubsetsUpTo(_, _)
SubsetsUpTo(S, n) ==
    IF n = 0 THEN {{}}
    ELSE LET T == SubsetsUpTo(S, n - 1) IN T \cup {B \cup {x} : B \in T, x \in S}

\* The lengths of the lines that `breaks` cuts a text of n characters into.
LineLens(n, breaks) ==
    LET B == (breaks \cap 1..(n - 1)) \cup {0, n}
    IN  {(CHOOSE b \in B : b > a /\ \A c \in B : c > a => b <= c) - a : a \in B \ {n}}

LegalBreaks(n, breaks) == \A l \in LineLens(n, breaks) : l \in 1..72

FxShortInner == <<1, 1>> \o SeratoEntry(NameBPMLOCK, <<1>>)

FxLongInner == <<1, 1>> \o SeratoEntry(<<88>>, [k \in 1..LongDataLen |-> k])

FxShortText == B64EncodeNoPad(FxShortInner)

FxLongText == B64EncodeNoPad(FxLongInner)

\* The same base64 text under different line breaks.
ChunkedPayloads ==
    {<<1, 1>> \o Broken(FxShortText, br) \o <<0>> :
        br \in SubsetsUpTo(1..(Len(FxShortText) - 1), MaxBreaks)}
    \cup
    {<<1, 1>> \o Broken(FxLongText, {k}) \o <<0>> :
        k \in {j \in 1..(Len(FxLongText) - 1) : LegalBreaks(Len(FxLongText), {j})}}

\* Payloads that break the outer grammar.
OuterBadPayloads ==
    { <<1, 1>> \o FxShortText,
      <<1, 1>> \o FxShortText \o <<10, 0>>,
      <<1, 1>> \o FxShortText \o <<10, 10, 0>>,
      <<1, 1>> \o Take(FxShortText, 4) \o <<10, 10>> \o Drop(FxShortText, 4) \o <<0>>,
      <<1, 1, 10>> \o FxShortText \o <<0>>,
      <<1, 1>> \o FxShortText \o <<0, 7>>,
      <<1, 1>> \o FxShortText \o <<0, 0, 7, 0>>,
      <<1, 1>> \o FxShortText \o <<61, 0>>,
      <<1, 1>> \o FxShortText \o <<32, 0>>,
      <<1, 1>> \o FxLongText \o <<0>>,
      <<1, 1>> \o Take(FxLongText, 73) \o <<10>> \o Drop(FxLongText, 73) \o <<0>>,
      <<1, 1, 65, 66, 10>> \o FxLongText \o <<0>>,
      <<1, 1, 0>>,
      <<1>>,
      <<>> }

\* Every short slice over a few bytes, after the two version bytes.
ShortPayloads == {<<1, 1>> \o s : s \in SeqsUpTo({0, 10, 65, 66}, MaxShortLen)}

Markers2Inputs ==
    RawPayloads \cup OggPayloads \cup ChunkedPayloads \cup OuterBadPayloads \cup ShortPayloads

\* Sizes a caller assigns to a value it holds.
EditedSizes == {0, SmallSize}

(***************************************************************************)
(* The caller of the Markers2 tag.                                         *)
(***************************************************************************)
Init ==
    /\ input \in Markers2Inputs
    /\ value = NoValue
    /\ status = "init"
    /\ output = <<>>
    /\ count = 0
    /\ remainder = <<>>
    /\ op = "init"
    /\ origin = "none"
    /\ result = NoValue

\* The caller holds the result of a parser.
Parsed(r, name, env) ==
    /\ value' = r.value
    /\ status' = r.status
    /\ origin' = IF r.status = "ok" THEN env ELSE "none"
    /\ op' = name
    /\ output' = <<>>
    /\ count' = 0
    /\ result' = NoValue
    /\ UNCHANGED <<input, remainder>>

\* The caller holds the result of a writer.
Written(r, name) ==
    /\ status' = IF r.ok THEN "ok" ELSE "err"
    /\ output' = IF r.ok THEN r.val.bytes ELSE <<>>
    /\ count' = IF r.ok THEN r.val.n ELSE 0
    /\ op' = name
    /\ result' = NoValue
    /\ UNCHANGED <<input, value, remainder, origin>>

\* Markers2::parse(input)
Parse == Parsed(Markers2_parse(input), "parse", "id3")

\* Markers2::parse_ogg(input)
ParseOgg == Parsed(parse_ogg(input), "parse_ogg", "ogg")

\* markers2.write(writer)
Write ==
    /\ value.kind = "Markers2"
    /\ Written(write_markers2(value), "write")

\* markers2.write_ogg(writer)
WriteOgg ==
    /\ value.kind = "Markers2"
    /\ Written(write_ogg(value), "write_ogg")

\* The caller takes the bytes just written as its next input.
Feed ==
    /\ op \in {"write", "write_ogg"}
    /\ status = "ok"
    /\ input' = output
    /\ value' = NoValue
    /\ status' = "init"
    /\ output' = <<>>
    /\ count' = 0
    /\ op' = "init"
    /\ origin' = "none"
    /\ result' = NoValue
    /\ UNCHANGED remainder

\* The caller assigns the public field `size` of the value it holds.
SetSize ==
    /\ value.kind = "Markers2"
    /\ origin \in {"id3", "ogg"}
    /\ \E n \in EditedSizes :
           /\ n # value.size
           /\ value' = [value EXCEPT !.size = n]
    /\ origin' = "edited"
    /\ status' = "ok"
    /\ op' = "set_size"
    /\ output' = <<>>
    /\ count' = 0
    /\ result' = NoValue
    /\ UNCHANGED <<input, remainder>>

Next == Parse \/ ParseOgg \/ Write \/ WriteOgg \/ Feed \/ SetSize

Spec == Init /\ [][Next]_vars

(***************************************************************************)
(* The caller of RelVolAd.                                                 *)
(***************************************************************************)
InitRelVolAd ==
    /\ input \in SeqsUpTo({0, 1, 2}, MaxRelVolLen)
    /\ value = NoValue
    /\ status = "init"
    /\ output = <<>>
    /\ count = 0
    /\ remainder = <<>>
    /\ op = "init"
    /\ origin = "none"
    /\ result = NoValue

\* RelVolAd::parse(input)
ParseRelVolAd == Parsed(Outcome(RelVolAd_parse(input)), "relvolad_parse", "flac")

NextRelVolAd == ParseRelVolAd

SpecRelVolAd == InitRelVolAd /\ [][NextRelVolAd]_vars

(***************************************************************************)
(* The caller of the marker codec: take_marker on a slice that starts with *)
(* a marker entry, write_marker of the marker it returned.                 *)
(***************************************************************************)
MarkerNames == UnknownNames \cup {<<67, 85>>, <<99, 117, 101>>, <<127>>}

MarkerDatas == SeqsUpTo({0, 7, 255}, MaxDataLen)

MarkerTails == SeqsUpTo({0, 88}, MaxTail)

UnknownEntries == {SeratoEntry(n, d) : n \in MarkerNames, d \in MarkerDatas}

MarkerInputs ==
    {e \o t : e \in GoodEntries \cup MalformedEntries \cup UnknownEntries \cup {<<>>, <<0>>},
              t \in MarkerTails}

InitMarker ==
    /\ input \in MarkerInputs
    /\ value = NoValue
    /\ status = "init"
    /\ output = <<>>
    /\ count = 0
    /\ remainder = <<>>
    /\ op = "init"
    /\ origin = "none"
    /\ result = NoValue

\* The caller holds the result of take_marker.
Taken(r) ==
    /\ value' = IF r.ok THEN r.val ELSE NoValue
    /\ remainder' = IF r.ok THEN r.rest ELSE <<>>
    /\ status' = IF r.ok THEN "ok" ELSE "err"
    /\ origin' = IF r.ok THEN "marker" ELSE "none"
    /\ op' = "take_marker"
    /\ output' = <<>>
    /\ count' = 0
    /\ result' = NoValue
    /\ UNCHANGED input

\* take_marker(input)
TakeMarker == Taken(take_marker(input))

\* write_marker(writer, &marker)
WriteMarker ==
    /\ value.kind \in {"Unknown", "Color", "BPMLock", "Cue", "Loop", "Flip"}
    /\ Written([ok |-> TRUE, val |-> write_marker(value)], "write_marker")

\* The caller takes the bytes just written as its next input.
FeedMarker ==
    /\ op = "write_marker"
    /\ input' = output
    /\ value' = NoValue
    /\ status' = "init"
    /\ output' = <<>>
    /\ count' = 0
    /\ op' = "init"
    /\ origin' = "none"
    /\ remainder' = <<>>
    /\ result' = NoValue

NextMarker == TakeMarker \/ WriteMarker \/ FeedMarker

SpecMarker == InitMarker /\ [][NextMarker]_vars

(***************************************************************************)
(* Properties of the Markers2 tag, checked under Spec.                     *)
(***************************************************************************)
\* C1: every raw payload that Markers2::parse accepts is emitted again by
\* write, byte for byte, the trailing \x00 padding included.
C1_RoundTrip ==
    (op = "write" /\ origin = "id3" /\ status = "ok") => output = input

\* Raw and Ogg payloads whose last marker has a known name and a body with a
\* wrong fixed byte, or a body shorter than its declared length.
MalformedRaw ==
    {RawOf(<<1, 1>> \o p \o e \o t, pad) :
        p \in FxPrefixes, e \in WrongFixedEntries \cup LeftoverEntries,
        t \in {<<>>, <<0>>}, pad \in {0, MaxPad}}

MalformedOgg ==
    {OggOf(<<1, 1>> \o e \o t, pad) :
        e \in WrongFixedEntries, t \in {<<>>, <<0>>}, pad \in {0, MaxPad}}

\* C2: a payload with a malformed marker is an error of parse and of
\* parse_ogg: no value holding only the markers before it is returned.
C2_MalformedMarkerIsError ==
    /\ (op = "parse" /\ input \in MalformedRaw) => status # "ok"
    /\ (op = "parse_ogg" /\ input \in MalformedOgg) => status # "ok"

\* C6: Markers2::parse returns Ok or Err for every input; it does not panic.
C6_ParseNeverPanics == op = "parse" => status # "panic"

\* The text of a raw payload: the bytes between the version and the first \x00.
OuterText(i) == Take(Drop(i, 2), IndexOf(Drop(i, 2), 0) - 1)

\* Chunks of 1..72 base64 characters, separated by a single \n.
ChunkedText(t) ==
    /\ t # <<>>
    /\ \A k \in 1..Len(t) : is_base64(t[k]) \/ t[k] = 10
    /\ t[1] # 10
    /\ t[Len(t)] # 10
    /\ \A k \in 1..(Len(t) - 1) : ~(t[k] = 10 /\ t[k + 1] = 10)
    /\ \A k \in 1..(Len(t) - 72) : \E j \in k..(k + 72) : t[j] = 10

\* The outer grammar: version, chunked text, \x00, then \x00 bytes only.
OuterGrammarOk(i) ==
    /\ Len(i) >= 3
    /\ IndexOf(Drop(i, 2), 0) > 0
    /\ \A k \in (IndexOf(Drop(i, 2), 0) + 2)..Len(i) : i[k] = 0
    /\ ChunkedText(OuterText(i))

\* C7: Markers2::parse returns a value only for an input that is a version,
\* one or more chunks of 1..72 base64 characters separated by single \n, a
\* \x00, and then \x00 bytes only.
C7_ValueOnlyForOuterGrammar ==
    (op = "parse" /\ status = "ok") => OuterGrammarOk(input)

\* C9: a value a parser returned is serialised by write and by write_ogg,
\* whichever envelope it was parsed from.
C9_CrossEnvelopeWrite ==
    (op \in {"write", "write_ogg"} /\ origin \in {"id3", "ogg"}) => status = "ok"

\* The raw payload with the same base64 characters in lines of 72.
Unchunked(i) ==
    Take(i, 2) \o Lines72(SelectSeq(OuterText(i), is_base64)) \o <<0>>

\* The number of base64 characters in front of each \n of a text.
BreakOffsets(t) ==
    {Cardinality({j \in 1..k : t[j] # 10}) : k \in {k \in 1..Len(t) : t[k] = 10}}

\* A legal chunking whose every chunk but the last is a multiple of four
\* characters long.
AlignedChunking(i) ==
    OuterGrammarOk(i) /\ \A b \in BreakOffsets(OuterText(i)) : b % 4 = 0

\* C5 as stated: a raw payload under any legal line breaks parses to the
\* structured content its base64 text parses to in lines of 72.
C5_AnyChunkingSameContent ==
    (op = "parse" /\ status = "ok" /\ OuterGrammarOk(input)
        /\ Markers2_parse(Unchunked(input)).status = "ok")
    => value.content = Markers2_parse(Unchunked(input)).value.content

\* C5, amended: a raw payload whose line breaks all fall on a multiple of
\* four base64 characters parses to the outcome its base64 text parses to in
\* lines of 72: the same error, or the same inner version and markers.
C5_AlignedChunkingSameContent ==
    (op = "parse" /\ AlignedChunking(input))
    => /\ status = Markers2_parse(Unchunked(input)).status
       /\ status = "ok" =>
              value.content = Markers2_parse(Unchunked(input)).value.content

\* A payload with a line break that is not a break of the lines of 72 was
\* parsed to a value.
C5_Witness ==
    /\ op = "parse"
    /\ status = "ok"
    /\ AlignedChunking(input)
    /\ \E b \in BreakOffsets(OuterText(input)) : b % 72 # 0

\* The version and the terminated base64 lines write emits for a value.
EncodedPayload(v) ==
    write_version(v.version[1])
        \o base64_encode(write_markers2_content(v.content).bytes).bytes

\* C8: a parsed value has the length of its input as size; write emits the
\* version and the encoded content, then \x00 up to size when they are
\* shorter than size and nothing more when they are not, and returns the
\* number of bytes it emitted.
C8_SizePreservedOnWrite ==
    /\ (op \in {"parse", "parse_ogg"} /\ status = "ok") => value.size = Len(input)
    /\ (op = "write" /\ status = "ok") =>
          /\ count = Len(output)
          /\ Take(output, Len(EncodedPayload(value))) = EncodedPayload(value)
          /\ Len(output) = Max({value.size, Len(EncodedPayload(value))})
          /\ \A k \in (Len(EncodedPayload(value)) + 1)..Len(output) : output[k] = 0

\* write padded the encoded content of a parsed value up to its size.
C8_Witness ==
    /\ op = "write"
    /\ status = "ok"
    /\ Len(EncodedPayload(value)) < value.size
    /\ Len(output) = value.size

(***************************************************************************)
(* Properties of the marker codec, checked under SpecMarker.               *)
(***************************************************************************)
HasUnknownAction(marker) ==
    /\ marker.kind = "Flip"
    /\ \E k \in 1..Len(marker.actions) : marker.actions[k].kind = "UnknownAction"

\* C3: a FLIP marker with an action of an id other than 0 and 1 is written
\* back by write_marker as the bytes take_marker read it from.
C3_FlipActionPreserved ==
    (op = "write_marker" /\ origin = "marker" /\ HasUnknownAction(value))
    => output \o remainder = input

\* C4: of a marker entry with a name that is not BPMLOCK, COLOR, CUE, LOOP or
\* FLIP, take_marker returns Unknown{name, data} and the input after the
\* data; write_marker of that value emits name, \x00, the u32 big-endian
\* length and the data: the bytes it was read from.
C4_UnknownMarkerPreserved ==
    \A n \in MarkerNames, d \in MarkerDatas, t \in MarkerTails :
        input = SeratoEntry(n, d) \o t =>
            /\ op = "take_marker" =>
                  /\ status = "ok"
                  /\ value = UnknownMarker(n, d)
                  /\ remainder = t
            /\ op = "write_marker" =>
                  /\ output = n \o <<0>> \o to_be_bytes(Len(d)) \o d
                  /\ output \o remainder = input
                  /\ count = Len(output)

\* An Unknown marker with data was read and written back.
C4_Witness ==
    /\ op = "write_marker"
    /\ origin = "marker"
    /\ value.kind = "Unknown"
    /\ value.data # <<>>
    /\ remainder # <<>>

(***************************************************************************)
(* Properties of RelVolAd, checked under SpecRelVolAd.                     *)
(***************************************************************************)
\* C10: RelVolAd::parse accepts exactly the inputs of 5 bytes that end in
\* 01 00 00, and returns the version the first two bytes give; every other
\* input is an error.
C10_RelVolAdAccepts ==
    op = "relvolad_parse" =>
        /\ status \in {"ok", "err"}
        /\ status = "ok" <=> (Len(input) = 5 /\ SubSeq(input, 3, 5) = <<1, 0, 0>>)
        /\ status = "ok" => value = RelVolAdValue(Version(input[1], input[2]))

\* RelVolAd::parse returned a version.
C10_Witness ==
    /\ op = "relvolad_parse"
    /\ status = "ok"
    /\ value.version = Version(2, 1)

(***************************************************************************)
(* The caller of the Analysis codec: Analysis::parse on the bytes of an    *)
(* ID3/FLAC/MP4 payload, Analysis::parse_ogg on the bytes of an Ogg one.   *)
(***************************************************************************)
\* The decimal text of a number, as a writer of the Ogg form produces it.
RECURSIVE DecimalText(_)
DecimalText(n) ==
    IF n < 10 THEN <<48 + n>> ELSE Append(DecimalText(n \div 10), 48 + (n % 10))

OggText(major, minor) == DecimalText(major) \o <<46>> \o DecimalText(minor)

AnalysisAlphabet == {48, 49, 50, 46, 65, 2}
FxNumbers == {0, 1, 9, 10, 99, 100, 255}
FxOverRange == 256..300 \cup {999, 1000, 2550}
FxCanonicalTexts ==
    {OggText(n, k) : n \in 0..255, k \in FxNumbers}
        \cup {OggText(k, n) : n \in 0..255, k \in FxNumbers}
FxOverRangeTexts ==
    {OggText(n, k) : n \in FxOverRange, k \in FxNumbers}
        \cup {OggText(k, n) : n \in FxOverRange, k \in FxNumbers}
FxDamagedTexts ==
    UNION {{Append(OggText(n, k), b), <<b>> \o OggText(n, k),
            DecimalText(n) \o <<b>> \o DecimalText(k),
            DecimalText(n) \o DecimalText(k),
            <<48, 48>> \o OggText(n, k), DecimalText(n) \o <<46, 48>> \o DecimalText(k)}
           : n \in FxNumbers, k \in FxNumbers, b \in {0, 10, 45, 46, 65}}
FxRawVersions ==
    UNION {{<<n, k>>, <<n, k, 0>>} : n \in FxNumbers \cup {2}, k \in FxNumbers \cup {2}}

AnalysisInputs ==
    SeqsUpTo(AnalysisAlphabet, MaxAnalysisLen) \cup FxCanonicalTexts
        \cup FxOverRangeTexts \cup FxDamagedTexts \cup FxRawVersions

InitAnalysis ==
    /\ input \in AnalysisInputs
    /\ value = NoValue
    /\ status = "init"
    /\ output = <<>>
    /\ count = 0
    /\ remainder = <<>>
    /\ op = "init"
    /\ origin = "none"
    /\ result = NoValue

ParseAnalysis == Parsed(Outcome(Analysis_parse(input)), "analysis_parse", "id3")

ParseOggAnalysis ==
    Parsed(Outcome(Analysis_parse_ogg(input)), "analysis_parse_ogg", "ogg")

NextAnalysis == ParseAnalysis \/ ParseOggAnalysis

SpecAnalysis == InitAnalysis /\ [][NextAnalysis]_vars

\* The number a run of decimal digits denotes.
RECURSIVE DecimalValue(_)
DecimalValue(digits) ==
    IF digits = <<>> THEN 0
    ELSE DecimalValue(Take(digits, Len(digits) - 1)) * 10 + (digits[Len(digits)] - 48)

AllDigits(s) == s # <<>> /\ \A k \in 1..Len(s) : s[k] \in 48..57

\* "<digits>.<digits>" with both numbers at most 255 and nothing after.
OggVersionText(s) ==
    \E d \in 1..Len(s) :
        /\ s[d] = 46
        /\ AllDigits(Take(s, d - 1))
        /\ AllDigits(Drop(s, d))
        /\ DecimalValue(Take(s, d - 1)) <= 255
        /\ DecimalValue(Drop(s, d)) <= 255

\* C11: Analysis::parse accepts exactly the 2-byte inputs and returns their
\* two bytes as the version; Analysis::parse_ogg on the decimal text
\* "<major>.<minor>", for all major and minor in 0..255, returns the value
\* parse returns on the bytes <<major, minor>>; parse_ogg returns an error
\* for an empty digit run, a missing '.', a number above 255 (no wrap-around)
\* and any trailing byte.
C11_AnalysisOggEquivalence ==
    /\ op = "analysis_parse" =>
        /\ status \in {"ok", "err"}
        /\ status = "ok" <=> Len(input) = 2
        /\ status = "ok" => value = AnalysisValue(Version(input[1], input[2]))
    /\ op = "analysis_parse_ogg" =>
        /\ status \in {"ok", "err"}
        /\ \A major \in 0..255 :
              (/\ Len(input) > Len(DecimalText(major))
               /\ Take(input, Len(DecimalText(major)) + 1) = Append(DecimalText(major), 46)) =>
                  \A minor \in 0..255 :
                      input = OggText(major, minor) =>
                          [status |-> status, value |-> value]
                              = Outcome(Analysis_parse(<<major, minor>>))
        /\ status = "ok" => OggVersionText(input)

\* parse_ogg returned the version 255.10 for the text "255.10".
C11_Witness ==
    /\ op = "analysis_parse_ogg"
    /\ status = "ok"
    /\ input = <<50, 53, 53, 46, 49, 48>>
    /\ value = AnalysisValue(Version(255, 10))

(***************************************************************************)
(* The caller that edits the value Markers2::parse returned: the fields of *)
(* Markers2, Markers2Content and the markers are public.  It calls the     *)
(* accessors, and write and parse again on the edited value.               *)
(***************************************************************************)
FxColorB == <<0, 153, 255>>

\* Marker values a caller appends.
FxEditMarkers ==
    { BPMLockMarker(TRUE), BPMLockMarker(FALSE),
      TrackColorMarker(StoredToDisplayed(FxColor)), TrackColorMarker(FxColorB),
      Cue(2, 31250, StoredToDisplayed(FxColor), <<>>), Cue(2, 500, FxColorB, <<>>),
      Flip(1, FALSE, <<>>, TRUE,
           <<JumpFlipAction(FxF64a, FxF64b), UnknownFlipAction(2, <<7>>)>>),
      UnknownMarker(<<88>>, <<7>>) }

\* Labels a caller assigns.
FxEditLabels == {<<76>>}

EditInputs ==
    { RawOf(<<1, 1>> \o SeratoEntry(NameBPMLOCK, <<1>>)
                     \o SeratoEntry(NameCUE, BodyCue(2, 31250, FxColor, <<>>)), 0),
      RawOf(<<1, 1>> \o SeratoEntry(NameLOOP, BodyLoop(1, 10, 20, FxColor, 1, <<>>)), MaxPad) }

InitEdit ==
    /\ input \in EditInputs
    /\ value = NoValue
    /\ status = "init"
    /\ output = <<>>
    /\ count = 0
    /\ remainder = <<>>
    /\ op = "init"
    /\ origin = "none"
    /\ result = NoValue

AccessorOps == {"bpm_locked", "track_color", "cues", "loops", "flips"}

\* The caller assigns content.markers of the value it parsed from one of
\* the payloads it started with; it edits before it reads with an accessor.
Edited(markers) ==
    /\ input \in EditInputs
    /\ op \notin AccessorOps
    /\ value' = [value EXCEPT !.content.markers = markers]
    /\ origin' = "edited"
    /\ status' = "ok"
    /\ op' = "edit"
    /\ output' = <<>>
    /\ count' = 0
    /\ result' = NoValue
    /\ UNCHANGED <<input, remainder>>

\* markers2.content.markers.push(m)
PushMarker ==
    /\ value.kind = "Markers2"
    /\ Len(value.content.markers) < MaxMarkers
    /\ \E m \in FxEditMarkers : Edited(Append(value.content.markers, m))

\* markers2.content.markers.remove(k)
RemoveMarker ==
    /\ value.kind = "Markers2"
    /\ \E k \in 1..Len(value.content.markers) :
           Edited(Take(value.content.markers, k - 1) \o Drop(value.content.markers, k))

\* markers2.content.markers.swap(k, k + 1)
SwapMarkers ==
    /\ value.kind = "Markers2"
    /\ \E k \in 1..(Len(value.content.markers) - 1) :
           /\ value.content.markers[k] # value.content.markers[k + 1]
           /\ Edited([value.content.markers EXCEPT ![k] = value.content.markers[k + 1],
                                                   ![k + 1] = value.content.markers[k]])

\* The caller assigns the label of a Cue or Flip.
SetLabel ==
    /\ value.kind = "Markers2"
    /\ \E k \in 1..Len(value.content.markers), l \in FxEditLabels :
           /\ value.content.markers[k].kind \in {"Cue", "Flip"}
           /\ value.content.markers[k].label # l
           /\ Edited([value.content.markers EXCEPT ![k].label = l])

\* The caller holds what an accessor returned; accessors take &self.
Accessed(r, name) ==
    /\ value.kind = "Markers2"
    /\ result' = r
    /\ op' = name
    /\ UNCHANGED <<input, value, status, output, count, remainder, origin>>

BpmLocked == value.kind = "Markers2" /\ Accessed(bpm_locked(value), "bpm_locked")

TrackColor == value.kind = "Markers2" /\ Accessed(track_color(value), "track_color")

Cues == value.kind = "Markers2" /\ Accessed(cues(value), "cues")

Loops == value.kind = "Markers2" /\ Accessed(loops(value), "loops")

Flips == value.kind = "Markers2" /\ Accessed(flips(value), "flips")

\* Markers2::parse of a payload the caller has not parsed yet.
ParseNew == op = "init" /\ Parse

\* markers2.write(writer) of the value as parsed or edited.
WriteEdited == op \notin AccessorOps /\ Write

NextEdit ==
    \/ ParseNew \/ WriteEdited \/ Feed
    \/ PushMarker \/ RemoveMarker \/ SwapMarkers \/ SetLabel
    \/ BpmLocked \/ TrackColor \/ Cues \/ Loops \/ Flips

SpecEdit == InitEdit /\ [][NextEdit]_vars

(***************************************************************************)
(* Properties of the accessors, checked under SpecEdit.                    *)
(***************************************************************************)
\* The position of the first marker of a kind in a marker sequence, 0 when
\* there is none.
FirstOfKind(markers, kind) ==
    IF \A k \in 1..Len(markers) : markers[k].kind # kind THEN 0
    ELSE CHOOSE k \in 1..Len(markers) :
             /\ markers[k].kind = kind
             /\ \A j \in 1..(k - 1) : markers[j].kind # kind

\* C12: bpm_locked() returns None when content.markers holds no BPMLock
\* marker and otherwise Some(is_locked) of the first BPMLock marker;
\* track_color() returns None or Some(color) of the first Color marker; the
\* markers after the first of the kind do not affect the result.
C12_FirstMarkerWins ==
    /\ op = "bpm_locked" =>
          IF FirstOfKind(value.content.markers, "BPMLock") = 0 THEN result = None
          ELSE result = Some(value.content.markers[
                                 FirstOfKind(value.content.markers, "BPMLock")].is_locked)
    /\ op = "track_color" =>
          IF FirstOfKind(value.content.markers, "Color") = 0 THEN result = None
          ELSE result = Some(value.content.markers[
                                 FirstOfKind(value.content.markers, "Color")].color)

\* bpm_locked() was called on a value with two BPMLock markers that differ,
\* and returned the first.
C12_Witness ==
    /\ op = "bpm_locked"
    /\ Len(value.content.markers) = 2
    /\ value.content.markers[1] = BPMLockMarker(FALSE)
    /\ value.content.markers[2] = BPMLockMarker(TRUE)
    /\ result = Some(FALSE)

\* The markers of a kind, in the order of the sequence.
OfKind(markers, kind) == SelectSeq(markers, LAMBDA m : m.kind = kind)

\* C13: cues(), loops() and flips() return the markers of their kind, equal
\* to the ones in content.markers and in their order, nothing merged by
\* index and nothing of another kind; a call of an accessor leaves version,
\* size and content of the value as they were.
C13_AccessorsCopyInOrder ==
    /\ [](/\ op = "cues" => result = OfKind(value.content.markers, "Cue")
          /\ op = "loops" => result = OfKind(value.content.markers, "Loop")
          /\ op = "flips" => result = OfKind(value.content.markers, "Flip"))
    /\ [][op' \in AccessorOps => value' = value]_vars

\* cues() returned two cues of the same index in the order of the sequence.
C13_Witness ==
    /\ op = "cues"
    /\ Len(result) = 2
    /\ result[1].index = result[2].index
    /\ result[1] # result[2]
    /\ result = value.content.markers

(***************************************************************************)
(* Properties of write and parse on edited values, checked under SpecEdit. *)
(***************************************************************************)
\* C17: for a value Markers2::parse returned and a caller then edited
\* (markers appended, removed, reordered, labels changed; labels without
\* \x00, Unknown names non-empty, without \x00 and none of the five known
\* names), parse of the bytes write emits succeeds and returns the inner
\* version and the marker sequence of the value.
C17_EditedValueRoundTrip ==
    (op = "write" /\ origin \in {"id3", "edited"}) =>
        /\ status = "ok"
        /\ Markers2_parse(output).status = "ok"
        /\ Markers2_parse(output).value.content = value.content

(***************************************************************************)
(* The caller of decode_base64_chunks: take_markers2 and parse_ogg hand it *)
(* the chunks take_base64_chunks returned, runs of base64 characters.      *)
(***************************************************************************)
FxChunks == SeqsUpTo({65, 66, 69, 81}, MaxChunkLen) \ {<<>>}

\* Chunks of 69 to 73 characters.
FxLongChunks == {[k \in 1..n |-> IF k = n THEN c ELSE 65] : n \in 69..73, c \in {65, 81}}

ChunkLists ==
    {<<c>> : c \in FxChunks \cup FxLongChunks}
        \cup {<<c, d>> : c, d \in {<<65, 81, 69, 65>>, <<65, 81, 69>>, <<65, 66>>, <<81>>}}
        \cup {<<>>}

InitChunks ==
    /\ input \in ChunkLists
    /\ value = NoValue
    /\ status = "init"
    /\ output = <<>>
    /\ count = 0
    /\ remainder = <<>>
    /\ op = "init"
    /\ origin = "none"
    /\ result = NoValue

\* The caller holds the Result of decode_base64_chunks, or it panicked.
Decoded(r) ==
    /\ status' = IF r.ok THEN "ok" ELSE IF r.kind = "Panic" THEN "panic" ELSE "err"
    /\ output' = IF r.ok THEN r.val ELSE <<>>
    /\ op' = "decode_base64_chunks"
    /\ UNCHANGED <<input, value, count, remainder, origin, result>>

\* decode_base64_chunks(input)
DecodeChunks == op = "init" /\ Decoded(decode_base64_chunks(input))

NextChunks == DecodeChunks

SpecChunks == InitChunks /\ [][NextChunks]_vars

\* The bytes the retry rule assigns to a chunk: the decoding of the chunk
\* when its length is a multiple of 4, of the chunk and one 'A' otherwise.
RetryRule(chunk) ==
    IF Len(chunk) % 4 = 0 THEN decode_config_slice(chunk)
    ELSE decode_config_slice(Append(chunk, 65))

\* C14: decode_base64_chunks decodes a chunk whose length is a multiple of 4
\* as it is and a chunk whose length is 1, 2 or 3 modulo 4 with one 'A'
\* appended, and every chunk contributes at most 54 bytes.
C14_RetryRule ==
    (op = "decode_base64_chunks" /\ \A k \in 1..Len(input) : Len(input[k]) <= 72) =>
        /\ status = "ok"
        /\ output = Flatten([k \in 1..Len(input) |-> RetryRule(input[k]).val])
        /\ \A k \in 1..Len(input) : Len(RetryRule(input[k]).val) <= 54

(***************************************************************************)
(* Properties of the writers' counts and length fields, checked under      *)
(* SpecMarker, and of the inner payload, checked under Spec.               *)
(***************************************************************************)
\* C15: the count write_marker returns for a Flip with any number of actions
\* is the number of bytes it emitted: name, length field, fixed fields,
\* label and all actions together.
C15_FlipCountIsBytesEmitted ==
    (op = "write_marker" /\ value.kind = "Flip") => count = Len(output)

\* The number the four bytes after position k of a slice encode, big-endian.
U32At(s, k) == be_u32(Drop(s, k)).val

\* C16: the u32 big-endian length write_marker emits after the name and its
\* \x00 is the number of bytes it emits after that length, for every kind of
\* marker; the u32 length emitted after the id of a flip action is the
\* number of data bytes of the action emitted after it.
C16_LengthFieldIsBodyLength ==
    op = "write_marker" =>
        /\ IndexOf(output, 0) > 0
        /\ Len(output) >= IndexOf(output, 0) + 4
        /\ U32At(output, IndexOf(output, 0)) = Len(output) - IndexOf(output, 0) - 4
        /\ value.kind = "Flip" =>
              \A k \in 1..Len(value.actions) :
                  U32At(write_flip_marker_action(value.actions[k]).bytes, 1)
                      = Len(write_flip_marker_action(value.actions[k]).bytes) - 5

\* The decoded inner payload of a raw or an Ogg payload.
InnerOf(i, env) ==
    IF env = "ogg" THEN base64_decode(i).val
    ELSE decode_base64_chunks(take_base64_chunks(Drop(i, 2)).val).val

\* C18: when parse or parse_ogg returns a value, parse_markers2_content has
\* read the decoded inner payload to its end, and write_markers2_content of
\* the value emits the inner payload again: the version and every marker,
\* whatever followed the last marker included.
C18_InnerPayloadComplete ==
    (op \in {"parse", "parse_ogg"} /\ status = "ok") =>
        /\ parse_markers2_content(InnerOf(input, origin)).rest = <<>>
        /\ write_markers2_content(value.content).bytes = InnerOf(input, origin)

====
